---- MODULE Spec2Model ----
(***************************************************************************)
(* Model of autobahn/compress_snappy.py: negotiation of the                *)
(* permessage-snappy WebSocket extension (Offer, OfferAccept, Response,    *)
(* ResponseAccept) and the per-message compression session PerMessageSnappy.*)
(*                                                                         *)
(* Python values that reach the code untyped (parameter values, the        *)
(* requestNoContextTakeover argument) are modelled by tags:                *)
(*   "True" "False"  the two bool objects                                  *)
(*   "1" "0"         the ints 1 and 0                                      *)
(*   "'true'"        the str 'true'                                        *)
(* A parameter mapping (a dict name -> list of values) is the sequence of  *)
(* its entries [p, v] in the order `for p in params` visits them; the keys *)
(* of a dict are distinct.  An extension string is the sequence of its     *)
(* tokens, which the wire joins with "; ".                                 *)
(***************************************************************************)
EXTENDS Integers, Sequences, FiniteSets, TLC

VARIABLES
  params,          \* the parameter mapping handed to parse()
  call,            \* the most recent call and what it returned or raised
  clientOffer,     \* client: the PerMessageSnappyOffer it built
  offerHeader,     \* extension string of the offer as received by the server
  serverOffer,     \* server: result of PerMessageSnappyOffer.parse
  offerAccept,     \* server: the PerMessageSnappyOfferAccept
  responseHeader,  \* extension string of the response as received by the client
  response,        \* client: result of PerMessageSnappyResponse.parse
  responseAccept,  \* client: the PerMessageSnappyResponseAccept
  session,         \* the PerMessageSnappy object of each side
  allocated,       \* number of codec objects created so far (object identity)
  link             \* the messages one endpoint sent to the other over a connection

vars == <<params, call, clientOffer, offerHeader, serverOffer, offerAccept,
          responseHeader, response, responseAccept, session, allocated, link>>

-----------------------------------------------------------------------------
(* Bounds *)

\* total number of values carried by one parameter mapping
MaxValues == 3
\* number of parameter tokens in a header an untrusted peer sends
MaxHeaderParams == 2
\* number of codec objects one session creates
MaxInstances == 3
\* number of chunks one codec object is fed
MaxChunks == 2
\* number of messages sent over one connection
MaxMessages == 3
\* number of compressMessageData calls per message
MaxFragments == 1

-----------------------------------------------------------------------------
(* Python values *)

PyValues == {"True", "False", "1", "0", "'true'"}

\* type(v) == bool
PyIsBool(v) == v \in {"True", "False"}

\* bool(v): truth value of v
PyTruth(v) == v \in {"True", "1", "'true'"}

\* v != True  (bool is a subclass of int: 1 == True, 0 == False)
PyNotEqualTrue(v) == v \notin {"True", "1"}

None == [kind |-> "None"]

\* no extension string received yet
NoHeader == <<>>

Raise(type, msg) == [kind |-> "raise", type |-> type, msg |-> msg]

Raised(r) == r.kind = "raise"

EXTENSION_NAME == "permessage-snappy"

C2S == "c2s_no_context_takeover"
S2C == "s2c_no_context_takeover"

MultipleOccurence == "multiple occurence of extension parameter"
IllegalValue == "illegal extension parameter value"
IllegalParameter == "illegal extension parameter"

-----------------------------------------------------------------------------
(* PerMessageSnappyOffer *)

\* PerMessageSnappyOffer.__init__
Offer(acceptNoContextTakeover, requestNoContextTakeover) ==
  [kind |-> "Offer",
   acceptNoContextTakeover |-> acceptNoContextTakeover,
   requestNoContextTakeover |-> requestNoContextTakeover]

\* the loop `for p in params` of PerMessageSnappyOffer.parse, from entry i on,
\* with the flags set so far; ends in the Offer or in the exception raised
RECURSIVE OfferParseLoop(_, _, _, _)
OfferParseLoop(ps, i, acceptNoContextTakeover, requestNoContextTakeover) ==
  IF i > Len(ps)
  THEN Offer(acceptNoContextTakeover, requestNoContextTakeover)
  ELSE LET p == ps[i].p
           v == ps[i].v
       IN IF Len(v) > 1
          THEN Raise("Exception", MultipleOccurence)
          ELSE IF Len(v) = 0
          THEN Raise("IndexError", "list index out of range")
          ELSE LET val == v[1]
               IN IF p = C2S
                  THEN IF PyNotEqualTrue(val)
                       THEN Raise("Exception", IllegalValue)
                       ELSE OfferParseLoop(ps, i + 1, TRUE, requestNoContextTakeover)
                  ELSE IF p = S2C
                  THEN IF PyNotEqualTrue(val)
                       THEN Raise("Exception", IllegalValue)
                       ELSE OfferParseLoop(ps, i + 1, acceptNoContextTakeover, TRUE)
                  ELSE Raise("Exception", IllegalParameter)

\* Offer.parse without the check of len(params[p]): only the first value counts
Offer_parse_NoLengthCheck(ps) ==
  OfferParseLoop([i \in 1..Len(ps) |->
                    [ps[i] EXCEPT !.v = IF Len(@) > 1 THEN <<@[1]>> ELSE @]],
                 1, FALSE, FALSE)

\* Offer.parse that skips the parameters it does not know
Offer_parse_IgnoreUnknown(ps) ==
  OfferParseLoop(SelectSeq(ps, LAMBDA e : e.p \in {C2S, S2C}), 1, FALSE, FALSE)

\* Offer.parse that binds the two flags the other way round
Offer_parse_Swapped(ps) ==
  LET r == OfferParseLoop(ps, 1, FALSE, FALSE)
  IN IF r.kind = "Offer"
     THEN Offer(r.requestNoContextTakeover, r.acceptNoContextTakeover)
     ELSE r

\* PerMessageSnappyOffer.parse
Offer_parse(ps) == OfferParseLoop(ps, 1, FALSE, FALSE)

\* Offer.getExtensionString that announces each flag under the other name
Offer_getExtensionString_Crossed(self) ==
  <<EXTENSION_NAME>>
    \o (IF self.requestNoContextTakeover THEN <<C2S>> ELSE <<>>)
    \o (IF self.acceptNoContextTakeover THEN <<S2C>> ELSE <<>>)

\* PerMessageSnappyOffer.getExtensionString
Offer_getExtensionString(self) ==
  <<EXTENSION_NAME>>
    \o (IF self.acceptNoContextTakeover THEN <<C2S>> ELSE <<>>)
    \o (IF self.requestNoContextTakeover THEN <<S2C>> ELSE <<>>)

-----------------------------------------------------------------------------
(* PerMessageSnappyOfferAccept *)

\* OfferAccept.__init__ without the check that the client accepts the feature
OfferAccept_NoConsentCheck(offer, requestNoContextTakeover) ==
  IF offer.kind # "Offer"
  THEN Raise("Exception", "invalid type for offer")
  ELSE IF ~PyIsBool(requestNoContextTakeover)
  THEN Raise("Exception", "invalid type for requestNoContextTakeover")
  ELSE [kind |-> "OfferAccept",
        offer |-> offer,
        requestNoContextTakeover |-> PyTruth(requestNoContextTakeover)]

\* OfferAccept.__init__ without the check of type(requestNoContextTakeover)
OfferAccept_NoTypeCheck(offer, requestNoContextTakeover) ==
  IF offer.kind # "Offer"
  THEN Raise("Exception", "invalid type for offer")
  ELSE IF PyTruth(requestNoContextTakeover) /\ ~offer.acceptNoContextTakeover
  THEN Raise("Exception", "invalid value for requestNoContextTakeover - feature unsupported by client")
  ELSE [kind |-> "OfferAccept",
        offer |-> offer,
        requestNoContextTakeover |-> PyTruth(requestNoContextTakeover)]

\* PerMessageSnappyOfferAccept.__init__: the object, or the exception raised
OfferAccept(offer, requestNoContextTakeover) ==
  IF offer.kind # "Offer"
  THEN Raise("Exception", "invalid type for offer")
  ELSE IF ~PyIsBool(requestNoContextTakeover)
  THEN Raise("Exception", "invalid type for requestNoContextTakeover")
  ELSE IF PyTruth(requestNoContextTakeover) /\ ~offer.acceptNoContextTakeover
  THEN Raise("Exception", "invalid value for requestNoContextTakeover - feature unsupported by client")
  ELSE [kind |-> "OfferAccept",
        offer |-> offer,
        requestNoContextTakeover |-> PyTruth(requestNoContextTakeover)]

\* OfferAccept.getExtensionString that writes the parameters in the order
\* Offer.getExtensionString writes them
OfferAccept_getExtensionString_C2SFirst(self) ==
  <<EXTENSION_NAME>>
    \o (IF self.requestNoContextTakeover THEN <<C2S>> ELSE <<>>)
    \o (IF self.offer.requestNoContextTakeover THEN <<S2C>> ELSE <<>>)

\* PerMessageSnappyOfferAccept.getExtensionString
OfferAccept_getExtensionString(self) ==
  <<EXTENSION_NAME>>
    \o (IF self.offer.requestNoContextTakeover THEN <<S2C>> ELSE <<>>)
    \o (IF self.requestNoContextTakeover THEN <<C2S>> ELSE <<>>)

-----------------------------------------------------------------------------
(* PerMessageSnappyResponse *)

\* PerMessageSnappyResponse.__init__
Response(c2s_no_context_takeover, s2c_no_context_takeover) ==
  [kind |-> "Response",
   c2s_no_context_takeover |-> c2s_no_context_takeover,
   s2c_no_context_takeover |-> s2c_no_context_takeover]

\* the loop `for p in params` of PerMessageSnappyResponse.parse
RECURSIVE ResponseParseLoop(_, _, _, _)
ResponseParseLoop(ps, i, c2s_no_context_takeover, s2c_no_context_takeover) ==
  IF i > Len(ps)
  THEN Response(c2s_no_context_takeover, s2c_no_context_takeover)
  ELSE LET p == ps[i].p
           v == ps[i].v
       IN IF Len(v) > 1
          THEN Raise("Exception", MultipleOccurence)
          ELSE IF Len(v) = 0
          THEN Raise("IndexError", "list index out of range")
          ELSE LET val == v[1]
               IN IF p = C2S
                  THEN IF PyNotEqualTrue(val)
                       THEN Raise("Exception", IllegalValue)
                       ELSE ResponseParseLoop(ps, i + 1, TRUE, s2c_no_context_takeover)
                  ELSE IF p = S2C
                  THEN IF PyNotEqualTrue(val)
                       THEN Raise("Exception", IllegalValue)
                       ELSE ResponseParseLoop(ps, i + 1, c2s_no_context_takeover, TRUE)
                  ELSE Raise("Exception", IllegalParameter)

\* PerMessageSnappyResponse.parse
Response_parse(ps) == ResponseParseLoop(ps, 1, FALSE, FALSE)

-----------------------------------------------------------------------------
(* PerMessageSnappyResponseAccept *)

\* ResponseAccept.__init__ without the isinstance check
ResponseAccept_NoTypeCheck(resp) ==
  [kind |-> "ResponseAccept", response |-> resp]

\* PerMessageSnappyResponseAccept.__init__: the object, or the exception raised
ResponseAccept(resp) ==
  IF resp.kind # "Response"
  THEN Raise("Exception", "invalid type for response")
  ELSE [kind |-> "ResponseAccept", response |-> resp]

-----------------------------------------------------------------------------
(* The codec library (snappy.StreamCompressor / snappy.StreamDecompressor), *)
(* abstractly: a stream codec whose output for a chunk depends on the       *)
(* chunks it was fed since it was created.                                  *)

Chunks == {"a", "b"}

\* snappy.StreamCompressor(): a new object, identified by id, with an empty context
StreamCompressor(id) == [kind |-> "StreamCompressor", id |-> id, ctx |-> <<>>]

\* snappy.StreamDecompressor()
StreamDecompressor(id) == [kind |-> "StreamDecompressor", id |-> id, ctx |-> <<>>]

\* what add_chunk(data) returns from a compressor in context ctx
Encode(ctx, data) == [ctx |-> ctx, data |-> data]

\* the compressor after add_chunk(data)
add_chunk(c, data) == [c EXCEPT !.ctx = Append(@, data)]

\* decompress(enc) succeeds when enc was produced in the decompressor's context
Decodable(d, enc) == enc.ctx = d.ctx

\* the decompressor after a successful decompress(enc)
decompress(d, enc) == [d EXCEPT !.ctx = Append(@, enc.data)]

-----------------------------------------------------------------------------
(* PerMessageSnappy *)

\* PerMessageSnappy.__init__
PerMessageSnappy(isServer, s2c_no_context_takeover, c2s_no_context_takeover) ==
  [kind |-> "PerMessageSnappy",
   isServer |-> isServer,
   compressor |-> None,
   decompressor |-> None,
   s2c_no_context_takeover |-> s2c_no_context_takeover,
   c2s_no_context_takeover |-> c2s_no_context_takeover]

\* createFromResponseAccept that passes the two flags in the order the
\* Response constructor takes them
createFromResponseAccept_Swapped(isServer, accept) ==
  [kind |-> "PerMessageSnappy",
   isServer |-> isServer,
   compressor |-> None,
   decompressor |-> None,
   s2c_no_context_takeover |-> accept.response.c2s_no_context_takeover,
   c2s_no_context_takeover |-> accept.response.s2c_no_context_takeover]

\* PerMessageSnappy.createFromResponseAccept
createFromResponseAccept(isServer, accept) ==
  PerMessageSnappy(isServer,
                   accept.response.s2c_no_context_takeover,
                   accept.response.c2s_no_context_takeover)

\* createFromOfferAccept that passes the server's request as s2c and the
\* client's request as c2s
createFromOfferAccept_Swapped(isServer, accept) ==
  [kind |-> "PerMessageSnappy",
   isServer |-> isServer,
   compressor |-> None,
   decompressor |-> None,
   s2c_no_context_takeover |-> accept.requestNoContextTakeover,
   c2s_no_context_takeover |-> accept.offer.requestNoContextTakeover]

\* PerMessageSnappy.createFromOfferAccept
createFromOfferAccept(isServer, accept) ==
  PerMessageSnappy(isServer,
                   accept.offer.requestNoContextTakeover,
                   accept.requestNoContextTakeover)

\* startCompressMessage that creates a compressor for the first message only
startCompressMessage_OnlyFirst(self, new) ==
  IF self.compressor = None
  THEN [self EXCEPT !.compressor = new]
  ELSE self

\* startCompressMessage that tests the flag of the inbound direction
startCompressMessage_InboundFlag(self, new) ==
  IF self.compressor = None
     \/ (IF self.isServer THEN self.c2s_no_context_takeover
                          ELSE self.s2c_no_context_takeover)
  THEN [self EXCEPT !.compressor = new]
  ELSE self

\* PerMessageSnappy.startCompressMessage; new is the object
\* snappy.StreamCompressor() would return
startCompressMessage(self, new) ==
  IF self.isServer
  THEN IF self.compressor = None \/ self.s2c_no_context_takeover
       THEN [self EXCEPT !.compressor = new]
       ELSE self
  ELSE IF self.compressor = None \/ self.c2s_no_context_takeover
       THEN [self EXCEPT !.compressor = new]
       ELSE self

\* PerMessageSnappy.compressMessageData: the session afterwards
compressMessageData(self, data) ==
  [self EXCEPT !.compressor = add_chunk(@, data)]

\* endCompressMessage that drops the compressor when no context takeover
\* is negotiated for the outbound direction
endCompressMessage_Reset(self) ==
  IF (IF self.isServer THEN self.s2c_no_context_takeover
                       ELSE self.c2s_no_context_takeover)
  THEN [self EXCEPT !.compressor = None]
  ELSE self

\* PerMessageSnappy.endCompressMessage: the session afterwards
endCompressMessage(self) == self

\* what PerMessageSnappy.endCompressMessage returns
endCompressMessageResult(self) == ""

\* startDecompressMessage that creates a decompressor for every message
startDecompressMessage_AlwaysNew(self, new) ==
  [self EXCEPT !.decompressor = new]

\* startDecompressMessage that creates a decompressor for the first message
\* only
startDecompressMessage_OnlyFirst(self, new) ==
  IF self.decompressor = None
  THEN [self EXCEPT !.decompressor = new]
  ELSE self

\* startDecompressMessage that tests the flag of the outbound direction
startDecompressMessage_OutboundFlag(self, new) ==
  IF self.decompressor = None
     \/ (IF self.isServer THEN self.s2c_no_context_takeover
                          ELSE self.c2s_no_context_takeover)
  THEN [self EXCEPT !.decompressor = new]
  ELSE self

\* startDecompressMessage that assigns the new object to the compressor
\* field
startDecompressMessage_WrongField(self, new) ==
  IF self.decompressor = None
     \/ (IF self.isServer THEN self.c2s_no_context_takeover
                          ELSE self.s2c_no_context_takeover)
  THEN [self EXCEPT !.compressor = new, !.decompressor = new]
  ELSE self

\* PerMessageSnappy.startDecompressMessage; new is the object
\* snappy.StreamDecompressor() would return
startDecompressMessage(self, new) ==
  IF self.isServer
  THEN IF self.decompressor = None \/ self.c2s_no_context_takeover
       THEN [self EXCEPT !.decompressor = new]
       ELSE self
  ELSE IF self.decompressor = None \/ self.s2c_no_context_takeover
       THEN [self EXCEPT !.decompressor = new]
       ELSE self

\* PerMessageSnappy.decompressMessageData: the session afterwards
decompressMessageData(self, enc) ==
  [self EXCEPT !.decompressor = decompress(@, enc)]

\* endDecompressMessage that drops the decompressor when no context takeover
\* is negotiated for the inbound direction
endDecompressMessage_Reset(self) ==
  IF (IF self.isServer THEN self.c2s_no_context_takeover
                       ELSE self.s2c_no_context_takeover)
  THEN [self EXCEPT !.decompressor = None]
  ELSE self

\* PerMessageSnappy.endDecompressMessage: the session afterwards
endDecompressMessage(self) == self

\* what PerMessageSnappy.endDecompressMessage returns (pass)
endDecompressMessageResult(self) == None

-----------------------------------------------------------------------------
(* Inputs *)

Sides == {"server", "client"}

\* a parameter name the extension does not know
UnknownParameter == "client_max_window_bits"

ParameterNames == {C2S, S2C, UnknownParameter}

\* params is a parameter mapping that starts with the entries of prefix and
\* goes on with entries for some of the given names, in some order, carrying
\* at most n values in all
RECURSIVE IsMapping(_, _, _)
IsMapping(prefix, names, n) ==
  \/ params = prefix
  \/ \E k \in names, l \in 0..n :
       \E v \in [1..l -> PyValues] :
         IsMapping(Append(prefix, [p |-> k, v |-> v]), names \ {k}, n - l)

\* the extension strings an untrusted peer can send
Headers ==
  {<<EXTENSION_NAME>> \o t :
     t \in UNION {[1..l -> ParameterNames] : l \in 0..MaxHeaderParams}}

\* the parameter names of header h from position i on, without repetition,
\* in order of first occurrence
RECURSIVE NamesFrom(_, _)
NamesFrom(h, i) ==
  IF i > Len(h) THEN <<>>
  ELSE IF \E j \in 2..(i - 1) : h[j] = h[i]
       THEN NamesFrom(h, i + 1)
       ELSE <<h[i]>> \o NamesFrom(h, i + 1)

\* the permutations of 1..n
Permutations1(n) == {f \in [1..n -> 1..n] : \A i, j \in 1..n : f[i] = f[j] => i = j}

\* WebSocketProtocol._parseExtensionsHeader on one extension: every valueless
\* parameter token contributes the value True to the list of its name; the
\* result is a dict, whose entries may be visited in any order
ParseExtensionsHeader(h) ==
  LET names == NamesFrom(h, 2)
      occurrences(k) == Cardinality({j \in 2..Len(h) : h[j] = k})
      entry(k) == [p |-> k, v |-> [x \in 1..occurrences(k) |-> "True"]]
  IN {[i \in 1..Len(names) |-> entry(names[f[i]])] : f \in Permutations1(Len(names))}

\* no connection carrying messages
NoLink == [dir |-> ""]

NoCall == [op |-> "", side |-> "", args |-> <<>>, ret |-> None]

Call(op, side, args, ret) == [op |-> op, side |-> side, args |-> args, ret |-> ret]

-----------------------------------------------------------------------------
(* SpecParse: Offer.parse and Response.parse applied to a parameter mapping *)

InitParse ==
  /\ IsMapping(<<>>, ParameterNames, MaxValues)
  /\ call = NoCall
  /\ clientOffer = None
  /\ offerHeader = NoHeader
  /\ serverOffer = None
  /\ offerAccept = None
  /\ responseHeader = NoHeader
  /\ response = None
  /\ responseAccept = None
  /\ session = [s \in Sides |-> None]
  /\ allocated = 0
  /\ link = NoLink

ParseOffer ==
  /\ call = NoCall
  /\ call' = Call("Offer.parse", "server", <<>>, Offer_parse(params))
  /\ UNCHANGED <<params, clientOffer, offerHeader, serverOffer, offerAccept,
                 responseHeader, response, responseAccept, session, allocated, link>>

ParseResponse ==
  /\ call = NoCall
  /\ call' = Call("Response.parse", "client", <<>>, Response_parse(params))
  /\ UNCHANGED <<params, clientOffer, offerHeader, serverOffer, offerAccept,
                 responseHeader, response, responseAccept, session, allocated, link>>

NextParse == ParseOffer \/ ParseResponse

SpecParse == InitParse /\ [][NextParse]_vars

-----------------------------------------------------------------------------
(* Properties of parsing, checked under SpecParse *)

Parsed == call.op \in {"Offer.parse", "Response.parse"}

Recognized(name) == name \in {C2S, S2C}

\* entry e is a recognized parameter carrying the single value True
ValidEntry(e) == Recognized(e.p) /\ e.v = <<"True">>

\* every entry visited before entry i is valid
ValidBefore(i) == \A j \in 1..(i - 1) : ValidEntry(params[j])

Present(name) == \E i \in 1..Len(params) : params[i].p = name

RaisedMessage(msg) ==
  /\ Raised(call.ret)
  /\ call.ret.type = "Exception"
  /\ call.ret.msg = msg

\* C6 as stated: parsing a mapping in which some parameter occurs more than
\* once always fails with the multiple-occurrence error, whatever the other
\* entries are and in whatever order the entries are visited.  (Stated for
\* the mappings without an empty value list, whose failure is C9's.)
C6_DuplicateAlwaysMultipleOccurence ==
  (/\ Parsed
   /\ \E i \in 1..Len(params) : Len(params[i].v) > 1
   /\ \A i \in 1..Len(params) : Len(params[i].v) > 0)
    => RaisedMessage(MultipleOccurence)

\* C6 amended: parsing a mapping in which some parameter occurs more than once
\* always fails, whatever the values; the failure is the multiple-occurrence
\* error whenever every entry visited before that parameter is a recognized
\* parameter with the single value True.
C6_DuplicateAlwaysFails ==
  Parsed =>
    \A i \in 1..Len(params) :
      Len(params[i].v) > 1 =>
        /\ Raised(call.ret)
        /\ ValidBefore(i) => RaisedMessage(MultipleOccurence)

\* C6 witness: a parse that visited a valid entry and then a parameter that
\* occurs twice with differing values
C6_Witness ==
  /\ Parsed
  /\ Len(params) = 2
  /\ ValidEntry(params[1])
  /\ params[2].v = <<"False", "True">>
  /\ RaisedMessage(MultipleOccurence)

\* C7: a recognized parameter with a single value other than the bool True
\* (False, the ints 1 and 0, a str) makes parse fail with the illegal-value
\* error when it is visited (the entries before it being valid), and never
\* sets a flag.
C7_OnlyTrueIsLegal ==
  Parsed =>
    \A i \in 1..Len(params) :
      (/\ Recognized(params[i].p)
       /\ Len(params[i].v) = 1
       /\ params[i].v[1] # "True"
       /\ ValidBefore(i))
        => RaisedMessage(IllegalValue)

\* C8: parsing a mapping that holds a parameter name outside
\* {c2s_no_context_takeover, s2c_no_context_takeover} fails and returns no
\* object, wherever that entry is visited and whatever the other entries are.
C8_UnknownParameterFails ==
  (Parsed /\ \E i \in 1..Len(params) : ~Recognized(params[i].p))
    => Raised(call.ret)

\* C8 witness: a parse that met the unknown parameter after a valid entry
C8_Witness ==
  /\ Parsed
  /\ Len(params) = 2
  /\ ValidEntry(params[1])
  /\ params[2] = [p |-> UnknownParameter, v |-> <<"True">>]
  /\ RaisedMessage(IllegalParameter)

\* C9: for every mapping (any names, any values, value lists of any length,
\* the empty list included) parse either returns a negotiation object, and
\* then the mapping is valid, or fails with one of the three validator
\* failures; no other failure occurs.
C9_OnlyNamedFailures ==
  Parsed =>
    \/ /\ call.ret.kind \in {"Offer", "Response"}
       /\ \A i \in 1..Len(params) : ValidEntry(params[i])
    \/ RaisedMessage(MultipleOccurence)
    \/ RaisedMessage(IllegalValue)
    \/ RaisedMessage(IllegalParameter)

\* C10: for a valid mapping (every entry a recognized parameter with the
\* single value True) Offer.parse returns the Offer with
\* acceptNoContextTakeover = (c2s_no_context_takeover present) and
\* requestNoContextTakeover = (s2c_no_context_takeover present), and
\* Response.parse the Response whose flags are the presence of the same-named
\* parameters; an absent parameter gives false.
C10_FlagsArePresence ==
  (Parsed /\ \A i \in 1..Len(params) : ValidEntry(params[i])) =>
    /\ call.op = "Offer.parse" =>
         /\ call.ret.kind = "Offer"
         /\ call.ret.acceptNoContextTakeover = Present(C2S)
         /\ call.ret.requestNoContextTakeover = Present(S2C)
    /\ call.op = "Response.parse" =>
         /\ call.ret.kind = "Response"
         /\ call.ret.c2s_no_context_takeover = Present(C2S)
         /\ call.ret.s2c_no_context_takeover = Present(S2C)

\* C10 witness: Offer.parse of the mapping holding s2c_no_context_takeover
\* alone returned an Offer that requests and does not accept
C10_Witness ==
  /\ call.op = "Offer.parse"
  /\ params = <<[p |-> S2C, v |-> <<"True">>]>>
  /\ call.ret.kind = "Offer"
  /\ call.ret.requestNoContextTakeover
  /\ ~call.ret.acceptNoContextTakeover

-----------------------------------------------------------------------------
(* SpecSession: the message-lifecycle calls on one PerMessageSnappy object, *)
(* in any order the transport may make them                                 *)

\* the chunk sequences of length at most n
ChunkLists(n) == UNION {[1..l -> Chunks] : l \in 0..n}

\* the compressed chunks a peer can deliver
Encodings == {Encode(ctx, d) : ctx \in ChunkLists(MaxChunks - 1), d \in Chunks}

negotiation == <<params, clientOffer, offerHeader, serverOffer, offerAccept,
                 responseHeader, response, responseAccept>>

InitSession ==
  /\ params = <<>>
  /\ call = NoCall
  /\ clientOffer = None
  /\ offerHeader = NoHeader
  /\ serverOffer = None
  /\ offerAccept = None
  /\ responseHeader = NoHeader
  /\ response = None
  /\ responseAccept = None
  /\ \E side \in Sides, s2c \in BOOLEAN, c2s \in BOOLEAN :
       session = [s \in Sides |->
                    IF s = side THEN PerMessageSnappy(s = "server", s2c, c2s) ELSE None]
  /\ allocated = 0
  /\ link = NoLink

StartCompressMessage(s) ==
  /\ session[s] # None
  /\ LET after == startCompressMessage(session[s], StreamCompressor(allocated + 1))
     IN /\ after # session[s] => allocated < MaxInstances
        /\ session' = [session EXCEPT ![s] = after]
        /\ allocated' = IF after # session[s] THEN allocated + 1 ELSE allocated
  /\ call' = Call("startCompressMessage", s, <<>>, None)
  /\ UNCHANGED <<negotiation, link>>

CompressMessageData(s, data) ==
  /\ session[s] # None
  /\ IF session[s].compressor = None
     THEN /\ call' = Call("compressMessageData", s, <<data>>,
                          Raise("AttributeError", "'NoneType' object has no attribute 'add_chunk'"))
          /\ UNCHANGED session
     ELSE /\ Len(session[s].compressor.ctx) < MaxChunks
          /\ call' = Call("compressMessageData", s, <<data>>,
                          Encode(session[s].compressor.ctx, data))
          /\ session' = [session EXCEPT ![s] = compressMessageData(@, data)]
  /\ UNCHANGED <<negotiation, allocated, link>>

EndCompressMessage(s) ==
  /\ session[s] # None
  /\ call' = Call("endCompressMessage", s, <<>>, endCompressMessageResult(session[s]))
  /\ session' = [session EXCEPT ![s] = endCompressMessage(@)]
  /\ UNCHANGED <<negotiation, allocated, link>>

StartDecompressMessage(s) ==
  /\ session[s] # None
  /\ LET after == startDecompressMessage(session[s], StreamDecompressor(allocated + 1))
     IN /\ after # session[s] => allocated < MaxInstances
        /\ session' = [session EXCEPT ![s] = after]
        /\ allocated' = IF after # session[s] THEN allocated + 1 ELSE allocated
  /\ call' = Call("startDecompressMessage", s, <<>>, None)
  /\ UNCHANGED <<negotiation, link>>

DecompressMessageData(s, enc) ==
  /\ session[s] # None
  /\ IF session[s].decompressor = None
     THEN /\ call' = Call("decompressMessageData", s, <<enc>>,
                          Raise("AttributeError", "'NoneType' object has no attribute 'decompress'"))
          /\ UNCHANGED session
     ELSE IF ~Decodable(session[s].decompressor, enc)
     THEN /\ call' = Call("decompressMessageData", s, <<enc>>,
                          Raise("UncompressError", "corrupt input"))
          /\ UNCHANGED session
     ELSE /\ Len(session[s].decompressor.ctx) < MaxChunks
          /\ call' = Call("decompressMessageData", s, <<enc>>, enc.data)
          /\ session' = [session EXCEPT ![s] = decompressMessageData(@, enc)]
  /\ UNCHANGED <<negotiation, allocated, link>>

EndDecompressMessage(s) ==
  /\ session[s] # None
  /\ call' = Call("endDecompressMessage", s, <<>>, endDecompressMessageResult(session[s]))
  /\ session' = [session EXCEPT ![s] = endDecompressMessage(@)]
  /\ UNCHANGED <<negotiation, allocated, link>>

NextSession ==
  \E s \in Sides :
    \/ StartCompressMessage(s)
    \/ \E data \in Chunks : CompressMessageData(s, data)
    \/ EndCompressMessage(s)
    \/ StartDecompressMessage(s)
    \/ \E enc \in Encodings : DecompressMessageData(s, enc)
    \/ EndDecompressMessage(s)

SpecSession == InitSession /\ [][NextSession]_vars

-----------------------------------------------------------------------------
(* Properties of the message lifecycle, checked under SpecSession *)

\* the step is a call of op on the session of side s
Calls(op, s) == call'.op = op /\ call'.side = s /\ session[s] # None

\* no context takeover is negotiated for what self sends
OutboundNoContextTakeover(self) ==
  IF self.isServer THEN self.s2c_no_context_takeover
                   ELSE self.c2s_no_context_takeover

\* no context takeover is negotiated for what self receives
InboundNoContextTakeover(self) ==
  IF self.isServer THEN self.c2s_no_context_takeover
                   ELSE self.s2c_no_context_takeover

\* codec object c did not exist before the step and has an empty context
FreshInstance(c) == c # None /\ c.id > allocated /\ c.ctx = <<>>

\* C2: startCompressMessage() replaces the compressor by a fresh instance
\* exactly when no compressor exists yet or the outbound no-context-takeover
\* flag is set (s2c for a server session, c2s for a client session), and
\* otherwise keeps the same instance; so with the flag set consecutive calls
\* yield distinct instances and without it the same one.
C2_StartCompressResets ==
  [][\A s \in Sides :
       Calls("startCompressMessage", s) =>
         IF session[s].compressor = None \/ OutboundNoContextTakeover(session[s])
         THEN /\ FreshInstance(session'[s].compressor)
              /\ session'[s].compressor # session[s].compressor
         ELSE session'[s].compressor = session[s].compressor]_vars

\* C2 witness: a server session with s2c_no_context_takeover and without
\* c2s_no_context_takeover that never decompressed and whose compressor,
\* after startCompressMessage, is the third instance created, and empty
C2_Witness ==
  /\ call.op = "startCompressMessage"
  /\ session["server"] # None
  /\ session["server"].s2c_no_context_takeover
  /\ ~session["server"].c2s_no_context_takeover
  /\ session["server"].decompressor = None
  /\ session["server"].compressor = StreamCompressor(3)

\* C3: startDecompressMessage() replaces the decompressor by a fresh instance
\* exactly when no decompressor exists yet or the inbound no-context-takeover
\* flag is set (c2s for a server session, s2c for a client session), and
\* otherwise keeps the existing instance.
C3_StartDecompressResets ==
  [][\A s \in Sides :
       Calls("startDecompressMessage", s) =>
         IF session[s].decompressor = None \/ InboundNoContextTakeover(session[s])
         THEN /\ FreshInstance(session'[s].decompressor)
              /\ session'[s].decompressor # session[s].decompressor
         ELSE session'[s].decompressor = session[s].decompressor]_vars

\* C3 witness: a client session with c2s_no_context_takeover and without
\* s2c_no_context_takeover that started a message on a decompressor that
\* had consumed a chunk, and kept it
C3_Witness ==
  /\ call.op = "startDecompressMessage"
  /\ session["client"] # None
  /\ session["client"].c2s_no_context_takeover
  /\ ~session["client"].s2c_no_context_takeover
  /\ session["client"].decompressor # None
  /\ session["client"].decompressor.id = 1
  /\ Len(session["client"].decompressor.ctx) = 1

\* C4: endCompressMessage() returns the empty string and
\* endDecompressMessage() returns nothing, and neither changes the session:
\* compressor, decompressor and their contexts are what they were, whatever
\* the flags; a reset that is due happens at the next start call.
C4_EndChangesNothing ==
  [][\A s \in Sides :
       /\ Calls("endCompressMessage", s) =>
            /\ call'.ret = ""
            /\ session' = session
            /\ allocated' = allocated
       /\ Calls("endDecompressMessage", s) =>
            /\ call'.ret = None
            /\ session' = session
            /\ allocated' = allocated]_vars

\* C4 witness: endCompressMessage returned on a session whose outbound flag
\* is set and whose compressor still holds the context of the message
C4_Witness ==
  \E s \in Sides :
    /\ call.op = "endCompressMessage"
    /\ call.side = s
    /\ call.ret = ""
    /\ OutboundNoContextTakeover(session[s])
    /\ session[s].compressor # None
    /\ Len(session[s].compressor.ctx) = 2

-----------------------------------------------------------------------------
(* Spec: the handshake.  The client builds an Offer and sends its extension *)
(* string; the server parses the header it receives, accepts the offer,     *)
(* creates its session and answers; the client parses the answer, accepts   *)
(* it and creates its session.  A header may also come from a peer that     *)
(* does not run this code.                                                  *)

Init ==
  /\ params = <<>>
  /\ call = NoCall
  /\ clientOffer = None
  /\ offerHeader = NoHeader
  /\ serverOffer = None
  /\ offerAccept = None
  /\ responseHeader = NoHeader
  /\ response = None
  /\ responseAccept = None
  /\ session = [s \in Sides |-> None]
  /\ allocated = 0
  /\ link = NoLink

\* client: PerMessageSnappyOffer(accept, request)
MakeOffer(accept, request) ==
  /\ clientOffer = None
  /\ offerHeader = NoHeader
  /\ clientOffer' = Offer(accept, request)
  /\ call' = Call("Offer", "client", <<accept, request>>, clientOffer')
  /\ UNCHANGED <<params, offerHeader, serverOffer, offerAccept, responseHeader,
                 response, responseAccept, session, allocated, link>>

\* client: offer.getExtensionString() goes on the wire
SendOffer ==
  /\ clientOffer # None
  /\ offerHeader = NoHeader
  /\ offerHeader' = Offer_getExtensionString(clientOffer)
  /\ call' = Call("Offer.getExtensionString", "client", <<clientOffer>>, offerHeader')
  /\ UNCHANGED <<params, clientOffer, serverOffer, offerAccept, responseHeader,
                 response, responseAccept, session, allocated, link>>

\* a foreign client sends a header of its own
ForeignOffer(h) ==
  /\ clientOffer = None
  /\ offerHeader = NoHeader
  /\ offerHeader' = h
  /\ UNCHANGED <<params, call, clientOffer, serverOffer, offerAccept,
                 responseHeader, response, responseAccept, session, allocated, link>>

\* server: PerMessageSnappyOffer.parse on the parsed header
ParseOfferHeader ==
  /\ offerHeader # NoHeader
  /\ serverOffer = None
  /\ \E ps \in ParseExtensionsHeader(offerHeader) :
       /\ params' = ps
       /\ serverOffer' = Offer_parse(ps)
       /\ call' = Call("Offer.parse", "server", <<>>, serverOffer')
  /\ UNCHANGED <<clientOffer, offerHeader, offerAccept, responseHeader,
                 response, responseAccept, session, allocated, link>>

\* server: PerMessageSnappyOfferAccept(offer, requestNoContextTakeover)
AcceptOffer(requestNoContextTakeover) ==
  /\ serverOffer.kind = "Offer"
  /\ offerAccept = None
  /\ LET ret == OfferAccept(serverOffer, requestNoContextTakeover)
     IN /\ call' = Call("OfferAccept", "server",
                        <<serverOffer, requestNoContextTakeover>>, ret)
        /\ offerAccept' = IF Raised(ret) THEN offerAccept ELSE ret
  /\ UNCHANGED <<params, clientOffer, offerHeader, serverOffer, responseHeader,
                 response, responseAccept, session, allocated, link>>

\* server: PerMessageSnappy.createFromOfferAccept(True, accept)
CreateFromOfferAccept ==
  /\ offerAccept # None
  /\ session["server"] = None
  /\ session' = [session EXCEPT !["server"] = createFromOfferAccept(TRUE, offerAccept)]
  /\ call' = Call("createFromOfferAccept", "server", <<TRUE, offerAccept>>,
                  session'["server"])
  /\ UNCHANGED <<params, clientOffer, offerHeader, serverOffer, offerAccept,
                 responseHeader, response, responseAccept, allocated, link>>

\* server: accept.getExtensionString() goes on the wire
SendResponse ==
  /\ offerAccept # None
  /\ responseHeader = NoHeader
  /\ responseHeader' = OfferAccept_getExtensionString(offerAccept)
  /\ call' = Call("OfferAccept.getExtensionString", "server", <<offerAccept>>,
                  responseHeader')
  /\ UNCHANGED <<params, clientOffer, offerHeader, serverOffer, offerAccept,
                 response, responseAccept, session, allocated, link>>

\* a foreign server answers the client's offer with a header of its own
ForeignResponse(h) ==
  /\ clientOffer # None
  /\ offerHeader # NoHeader
  /\ serverOffer = None
  /\ responseHeader = NoHeader
  /\ responseHeader' = h
  /\ UNCHANGED <<params, call, clientOffer, offerHeader, serverOffer, offerAccept,
                 response, responseAccept, session, allocated, link>>

\* client: PerMessageSnappyResponse.parse on the parsed header
ParseResponseHeader ==
  /\ clientOffer # None
  /\ responseHeader # NoHeader
  /\ response = None
  /\ \E ps \in ParseExtensionsHeader(responseHeader) :
       /\ params' = ps
       /\ response' = Response_parse(ps)
       /\ call' = Call("Response.parse", "client", <<>>, response')
  /\ UNCHANGED <<clientOffer, offerHeader, serverOffer, offerAccept,
                 responseHeader, responseAccept, session, allocated, link>>

\* client: PerMessageSnappyResponseAccept(arg), arg being the parsed
\* Response or, by mistake, another negotiation object the client holds
AcceptResponse(arg) ==
  /\ arg.kind \in {"Response", "Offer"}
  /\ responseAccept = None
  /\ LET ret == ResponseAccept(arg)
     IN /\ call' = Call("ResponseAccept", "client", <<arg>>, ret)
        /\ responseAccept' = IF Raised(ret) THEN responseAccept ELSE ret
  /\ UNCHANGED <<params, clientOffer, offerHeader, serverOffer, offerAccept,
                 responseHeader, response, session, allocated, link>>

\* client: PerMessageSnappy.createFromResponseAccept(False, accept)
CreateFromResponseAccept ==
  /\ responseAccept.kind = "ResponseAccept"
  /\ session["client"] = None
  /\ session' = [session EXCEPT
                   !["client"] = createFromResponseAccept(FALSE, responseAccept)]
  /\ call' = Call("createFromResponseAccept", "client", <<FALSE, responseAccept>>,
                  session'["client"])
  /\ UNCHANGED <<params, clientOffer, offerHeader, serverOffer, offerAccept,
                 responseHeader, response, responseAccept, allocated, link>>

Next ==
  \/ \E accept \in BOOLEAN, request \in BOOLEAN : MakeOffer(accept, request)
  \/ SendOffer
  \/ \E h \in Headers : ForeignOffer(h)
  \/ ParseOfferHeader
  \/ \E requestNoContextTakeover \in PyValues : AcceptOffer(requestNoContextTakeover)
  \/ CreateFromOfferAccept
  \/ SendResponse
  \/ \E h \in Headers : ForeignResponse(h)
  \/ ParseResponseHeader
  \/ AcceptResponse(response)
  \/ AcceptResponse(clientOffer)
  \/ CreateFromResponseAccept

Spec == Init /\ [][Next]_vars

-----------------------------------------------------------------------------
(* Properties of the handshake, checked under Spec *)

\* C1: OfferAccept(offer, requestNoContextTakeover=True) from an Offer fails
\* when offer.acceptNoContextTakeover is false and succeeds when it is true;
\* with requestNoContextTakeover=False it always succeeds.  So every
\* OfferAccept that exists has requestNoContextTakeover only if its offer has
\* acceptNoContextTakeover.
C1_AcceptNeedsConsent ==
  /\ (call.op = "OfferAccept" /\ call.args[1].kind = "Offer") =>
       /\ call.args[2] = "True" =>
            (Raised(call.ret) <=> ~call.args[1].acceptNoContextTakeover)
       /\ call.args[2] = "False" => call.ret.kind = "OfferAccept"
  /\ offerAccept # None =>
       (offerAccept.requestNoContextTakeover => offerAccept.offer.acceptNoContextTakeover)

\* C1 witness: the server asked for no context takeover of an offer that
\* does not accept it, and the constructor raised
C1_Witness ==
  /\ call.op = "OfferAccept"
  /\ call.args[2] = "True"
  /\ ~call.args[1].acceptNoContextTakeover
  /\ Raised(call.ret)
  /\ offerAccept = None

\* C5: the session the server creates from an OfferAccept and the session
\* the client creates from the Response parsed out of that OfferAccept's
\* extension string have the same s2c_no_context_takeover and the same
\* c2s_no_context_takeover.
C5_BothPathsSameFlags ==
  (/\ session["server"] # None
   /\ session["client"] # None
   /\ responseHeader = OfferAccept_getExtensionString(offerAccept))
    => /\ session["client"].s2c_no_context_takeover
            = session["server"].s2c_no_context_takeover
       /\ session["client"].c2s_no_context_takeover
            = session["server"].c2s_no_context_takeover

\* C5 witness: both sessions exist after a handshake in which the server
\* requested c2s_no_context_takeover and the client did not request s2c
C5_Witness ==
  /\ session["server"] # None
  /\ session["client"] # None
  /\ clientOffer = Offer(TRUE, FALSE)
  /\ offerAccept # None
  /\ offerAccept.offer = clientOffer
  /\ offerAccept.requestNoContextTakeover
  /\ responseHeader = OfferAccept_getExtensionString(offerAccept)
  /\ session["server"].c2s_no_context_takeover
  /\ ~session["server"].s2c_no_context_takeover

\* C11: for all four combinations of (acceptNoContextTakeover,
\* requestNoContextTakeover) the Offer parsed from the tokenized extension
\* string of an Offer has the same two flags and the same extension string,
\* serialize(parse(serialize(offer))) = serialize(offer); the Offer with both
\* flags serializes to
\* "permessage-snappy; c2s_no_context_takeover; s2c_no_context_takeover".
C11_OfferRoundTrip ==
  (clientOffer # None /\ serverOffer # None) =>
    /\ offerHeader = Offer_getExtensionString(clientOffer)
    /\ serverOffer.kind = "Offer"
    /\ serverOffer.acceptNoContextTakeover = clientOffer.acceptNoContextTakeover
    /\ serverOffer.requestNoContextTakeover = clientOffer.requestNoContextTakeover
    /\ Offer_getExtensionString(serverOffer) = offerHeader
    /\ (clientOffer.acceptNoContextTakeover /\ clientOffer.requestNoContextTakeover)
         => offerHeader = <<"permessage-snappy", "c2s_no_context_takeover",
                            "s2c_no_context_takeover">>

\* C11 witness: the server parsed the header of a client Offer that accepts
\* and does not request, and got an Offer that accepts and does not request
C11_Witness ==
  /\ clientOffer = Offer(TRUE, FALSE)
  /\ call.op = "Offer.parse"
  /\ params = <<[p |-> C2S, v |-> <<"True">>]>>
  /\ serverOffer = Offer(TRUE, FALSE)

\* the extension strings with c2s_no_context_takeover before
\* s2c_no_context_takeover
C2SFirstStrings ==
  {<<EXTENSION_NAME>>, <<EXTENSION_NAME, C2S>>, <<EXTENSION_NAME, S2C>>,
   <<EXTENSION_NAME, C2S, S2C>>}

\* the extension strings with s2c_no_context_takeover before
\* c2s_no_context_takeover
S2CFirstStrings ==
  {<<EXTENSION_NAME>>, <<EXTENSION_NAME, C2S>>, <<EXTENSION_NAME, S2C>>,
   <<EXTENSION_NAME, S2C, C2S>>}

\* C12 as stated: every extension string produced by
\* Offer.getExtensionString or OfferAccept.getExtensionString is the token
\* permessage-snappy optionally followed by c2s_no_context_takeover and/or
\* s2c_no_context_takeover, c2s before s2c whenever both appear.
C12_AlwaysC2SFirst ==
  call.op \in {"Offer.getExtensionString", "OfferAccept.getExtensionString"}
    => call.ret \in C2SFirstStrings

\* C12 amended: every extension string produced is the token
\* permessage-snappy optionally followed by each of the two parameters once;
\* Offer.getExtensionString writes c2s_no_context_takeover before
\* s2c_no_context_takeover, OfferAccept.getExtensionString writes
\* s2c_no_context_takeover before c2s_no_context_takeover.
C12_FixedOrderPerSerializer ==
  /\ call.op = "Offer.getExtensionString" => call.ret \in C2SFirstStrings
  /\ call.op = "OfferAccept.getExtensionString" => call.ret \in S2CFirstStrings

\* C12 witness: the server serialized an OfferAccept carrying both parameters
C12_Witness ==
  /\ call.op = "OfferAccept.getExtensionString"
  /\ call.ret = <<EXTENSION_NAME, S2C, C2S>>

\* C15: ResponseAccept(response) succeeds for every Response that
\* Response.parse returned, whatever its two flags and whatever the client
\* offered, and fails with the invalid-type error when given something that
\* is not a Response, such as an Offer.
C15_ResponseAcceptUnconditional ==
  call.op = "ResponseAccept" =>
    IF call.args[1].kind = "Response"
    THEN /\ call.ret = [kind |-> "ResponseAccept", response |-> call.args[1]]
         /\ responseAccept = call.ret
    ELSE /\ Raised(call.ret)
         /\ call.ret.msg = "invalid type for response"

\* C15 witness: the client accepted a Response with both flags after an
\* offer that neither accepted nor requested no context takeover
C15_Witness ==
  /\ call.op = "ResponseAccept"
  /\ clientOffer = Offer(FALSE, FALSE)
  /\ response = Response(TRUE, TRUE)
  /\ responseAccept = [kind |-> "ResponseAccept", response |-> response]

\* the message of the type check of requestNoContextTakeover
InvalidRequestType == "invalid type for requestNoContextTakeover"

\* the message of the consent check of requestNoContextTakeover
UnsupportedByClient ==
  "invalid value for requestNoContextTakeover - feature unsupported by client"

\* C17 as stated: OfferAccept never checks that requestNoContextTakeover is
\* a bool; with a non-bool argument the constructor is decided by the
\* consent check alone: it fails, with the consent error, exactly when the
\* argument is true and the offer does not accept, and succeeds otherwise.
C17_NoTypeCheck ==
  (/\ call.op = "OfferAccept"
   /\ call.args[1].kind = "Offer"
   /\ ~PyIsBool(call.args[2]))
    => IF PyTruth(call.args[2]) /\ ~call.args[1].acceptNoContextTakeover
       THEN Raised(call.ret) /\ call.ret.msg = UnsupportedByClient
       ELSE call.ret.kind = "OfferAccept"

\* C17 amended: OfferAccept checks that requestNoContextTakeover is a bool
\* before the consent check: with a non-bool argument the constructor fails
\* with the invalid-type error, whatever the offer accepts, and creates no
\* OfferAccept.
C17_TypeCheckedFirst ==
  (/\ call.op = "OfferAccept"
   /\ call.args[1].kind = "Offer"
   /\ ~PyIsBool(call.args[2]))
    => /\ Raised(call.ret)
       /\ call.ret.msg = InvalidRequestType
       /\ offerAccept = None

\* C17 witness: the int 1 was passed for an offer that does not accept, and
\* the type error, not the consent error, was raised
C17_Witness ==
  /\ call.op = "OfferAccept"
  /\ call.args[2] = "1"
  /\ ~call.args[1].acceptNoContextTakeover
  /\ Raised(call.ret)
  /\ call.ret.msg = InvalidRequestType

\* the client's offer, as the server received it, contains the parameter
Offered(name) == \E i \in 2..Len(offerHeader) : offerHeader[i] = name

\* C20: in every session created by createFromOfferAccept from an
\* OfferAccept over an Offer returned by Offer.parse,
\* c2s_no_context_takeover is true only if the client's offer contained
\* c2s_no_context_takeover, and s2c_no_context_takeover is true exactly when
\* the client's offer contained s2c_no_context_takeover.
C20_ConsentCarriesThrough ==
  session["server"] # None =>
    /\ session["server"].c2s_no_context_takeover => Offered(C2S)
    /\ session["server"].s2c_no_context_takeover <=> Offered(S2C)

\* C20 witness: a server session without c2s_no_context_takeover although
\* the offer contained it, and with the s2c_no_context_takeover the offer
\* asked for
C20_Witness ==
  /\ session["server"] # None
  /\ call.op = "createFromOfferAccept"
  /\ Offered(C2S)
  /\ Offered(S2C)
  /\ ~session["server"].c2s_no_context_takeover
  /\ session["server"].s2c_no_context_takeover

-----------------------------------------------------------------------------
(* Further properties of the message lifecycle, checked under SpecSession *)

CompressCalls == {"startCompressMessage", "compressMessageData", "endCompressMessage"}

DecompressCalls ==
  {"startDecompressMessage", "decompressMessageData", "endDecompressMessage"}

\* C16: startCompressMessage, compressMessageData and endCompressMessage
\* leave the decompressor as it is, startDecompressMessage,
\* decompressMessageData and endDecompressMessage leave the compressor as it
\* is, and no message-lifecycle call changes isServer,
\* s2c_no_context_takeover or c2s_no_context_takeover, in every interleaving
\* of outbound and inbound calls on one session.
C16_DirectionsAreSeparate ==
  [][\A s \in Sides :
       (call'.side = s /\ session[s] # None) =>
         /\ call'.op \in CompressCalls =>
              session'[s].decompressor = session[s].decompressor
         /\ call'.op \in DecompressCalls =>
              session'[s].compressor = session[s].compressor
         /\ session'[s].isServer = session[s].isServer
         /\ session'[s].s2c_no_context_takeover = session[s].s2c_no_context_takeover
         /\ session'[s].c2s_no_context_takeover = session[s].c2s_no_context_takeover]_vars

\* C16 witness: a session with both flags whose decompressor was replaced
\* while the compressor held the chunk of an outbound message
C16_Witness ==
  \E s \in Sides :
    /\ call.op = "startDecompressMessage"
    /\ call.side = s
    /\ session[s].s2c_no_context_takeover
    /\ session[s].c2s_no_context_takeover
    /\ session[s].compressor # None
    /\ session[s].compressor.id = 1
    /\ Len(session[s].compressor.ctx) = 1
    /\ session[s].decompressor # None
    /\ session[s].decompressor.id = 3

\* C18: a new session has no compressor and no decompressor; once
\* startCompressMessage() was called the compressor exists in every later
\* state, once startDecompressMessage() was called the decompressor exists
\* in every later state, and compressMessageData / decompressMessageData
\* then find a context (they do not fail for want of one).
C18_ContextStaysOnceCreated ==
  [][\A s \in Sides :
       session[s] # None =>
         /\ call = NoCall =>
              session[s].compressor = None /\ session[s].decompressor = None
         /\ (call'.op = "startCompressMessage" /\ call'.side = s) =>
              session'[s].compressor # None
         /\ (call'.op = "startDecompressMessage" /\ call'.side = s) =>
              session'[s].decompressor # None
         /\ session[s].compressor # None => session'[s].compressor # None
         /\ session[s].decompressor # None => session'[s].decompressor # None
         /\ (call'.op = "compressMessageData" /\ call'.side = s
               /\ session[s].compressor # None) =>
              call'.ret = Encode(session[s].compressor.ctx, call'.args[1])
         /\ (call'.op = "decompressMessageData" /\ call'.side = s
               /\ session[s].decompressor # None) =>
              IF Decodable(session[s].decompressor, call'.args[1])
              THEN call'.ret = call'.args[1].data
              ELSE call'.ret.type # "AttributeError"]_vars

\* C18 witness: compressMessageData returned a chunk compressed in the
\* context of an earlier one, on a session whose outbound flag is set and
\* that ended a message before
C18_Witness ==
  \E s \in Sides :
    /\ call.op = "compressMessageData"
    /\ call.side = s
    /\ call.ret = Encode(<<"a">>, "b")
    /\ OutboundNoContextTakeover(session[s])
    /\ session[s].compressor # None
    /\ session[s].compressor.id = 2

-----------------------------------------------------------------------------
(* SpecLink: two endpoints that completed the negotiation with the same     *)
(* flags; one of them sends messages through its session and the other      *)
(* receives them, in the order sent, through its own                        *)

Directions == {"s2c", "c2s"}

Sender == IF link.dir = "s2c" THEN "server" ELSE "client"

Receiver == IF link.dir = "s2c" THEN "client" ELSE "server"

\* the chunks a sequence of compressed chunks was made from
RECURSIVE Payload(_)
Payload(encs) ==
  IF encs = <<>> THEN <<>> ELSE <<Head(encs).data>> \o Payload(Tail(encs))

\* the compressed message the receiver is to process next
Incoming == link.outs[Len(link.received) + 1]

InitLink ==
  /\ params = <<>>
  /\ call = NoCall
  /\ offerHeader = NoHeader
  /\ responseHeader = NoHeader
  /\ \E s2c \in BOOLEAN, c2s \in BOOLEAN :
       /\ clientOffer = Offer(c2s, s2c)
       /\ response = Response(c2s, s2c)
       /\ offerAccept = OfferAccept(clientOffer, IF c2s THEN "True" ELSE "False")
  /\ serverOffer = clientOffer
  /\ responseAccept = ResponseAccept(response)
  /\ session = [server |-> createFromOfferAccept(TRUE, offerAccept),
                client |-> createFromResponseAccept(FALSE, responseAccept)]
  /\ allocated = 0
  /\ \E dir \in Directions :
       link = [dir |-> dir,
               sending |-> FALSE,    \* the sender is inside a message
               out |-> <<>>,         \* compressed chunks of that message
               outs |-> <<>>,        \* the compressed messages sent so far
               sent |-> <<>>,        \* their payloads
               sentFresh |-> <<>>,   \* per message: a new compressor was made
               receiving |-> FALSE,  \* the receiver is inside a message
               got |-> <<>>,         \* chunks decompressed of that message
               received |-> <<>>,    \* the payloads received so far
               recvFresh |-> <<>>,   \* per message: a new decompressor was made
               failed |-> FALSE]     \* a chunk could not be decompressed

SendStart ==
  /\ ~link.sending
  /\ Len(link.sent) < MaxMessages
  /\ LET after == startCompressMessage(session[Sender], StreamCompressor(allocated + 1))
         fresh == after # session[Sender]
     IN /\ session' = [session EXCEPT ![Sender] = after]
        /\ allocated' = IF fresh THEN allocated + 1 ELSE allocated
        /\ link' = [link EXCEPT !.sending = TRUE,
                                !.out = <<>>,
                                !.sentFresh = Append(@, fresh)]
  /\ call' = Call("startCompressMessage", Sender, <<>>, None)
  /\ UNCHANGED negotiation

SendData(data) ==
  /\ link.sending
  /\ Len(link.out) < MaxFragments
  /\ LET enc == Encode(session[Sender].compressor.ctx, data)
     IN /\ call' = Call("compressMessageData", Sender, <<data>>, enc)
        /\ link' = [link EXCEPT !.out = Append(@, enc)]
  /\ session' = [session EXCEPT ![Sender] = compressMessageData(@, data)]
  /\ UNCHANGED <<negotiation, allocated>>

SendEnd ==
  /\ link.sending
  /\ link.out # <<>>
  /\ call' = Call("endCompressMessage", Sender, <<>>,
                  endCompressMessageResult(session[Sender]))
  /\ session' = [session EXCEPT ![Sender] = endCompressMessage(@)]
  /\ link' = [link EXCEPT !.sending = FALSE,
                          !.out = <<>>,
                          !.outs = Append(@, link.out),
                          !.sent = Append(@, Payload(link.out))]
  /\ UNCHANGED <<negotiation, allocated>>

RecvStart ==
  /\ ~link.receiving
  /\ ~link.failed
  /\ Len(link.received) < Len(link.outs)
  /\ LET after == startDecompressMessage(session[Receiver],
                                         StreamDecompressor(allocated + 1))
         fresh == after # session[Receiver]
     IN /\ session' = [session EXCEPT ![Receiver] = after]
        /\ allocated' = IF fresh THEN allocated + 1 ELSE allocated
        /\ link' = [link EXCEPT !.receiving = TRUE,
                                !.got = <<>>,
                                !.recvFresh = Append(@, fresh)]
  /\ call' = Call("startDecompressMessage", Receiver, <<>>, None)
  /\ UNCHANGED negotiation

RecvData ==
  /\ link.receiving
  /\ ~link.failed
  /\ Len(link.got) < Len(Incoming)
  /\ LET enc == Incoming[Len(link.got) + 1]
     IN IF Decodable(session[Receiver].decompressor, enc)
        THEN /\ call' = Call("decompressMessageData", Receiver, <<enc>>, enc.data)
             /\ session' = [session EXCEPT ![Receiver] = decompressMessageData(@, enc)]
             /\ link' = [link EXCEPT !.got = Append(@, enc.data)]
        ELSE /\ call' = Call("decompressMessageData", Receiver, <<enc>>,
                             Raise("UncompressError", "corrupt input"))
             /\ link' = [link EXCEPT !.failed = TRUE]
             /\ UNCHANGED session
  /\ UNCHANGED <<negotiation, allocated>>

RecvEnd ==
  /\ link.receiving
  /\ ~link.failed
  /\ Len(link.got) = Len(Incoming)
  /\ call' = Call("endDecompressMessage", Receiver, <<>>,
                  endDecompressMessageResult(session[Receiver]))
  /\ session' = [session EXCEPT ![Receiver] = endDecompressMessage(@)]
  /\ link' = [link EXCEPT !.receiving = FALSE,
                          !.got = <<>>,
                          !.received = Append(@, link.got)]
  /\ UNCHANGED <<negotiation, allocated>>

NextLink ==
  \/ SendStart
  \/ \E data \in Chunks : SendData(data)
  \/ SendEnd
  \/ RecvStart
  \/ RecvData
  \/ RecvEnd

SpecLink == InitLink /\ [][NextLink]_vars

\* C13: with context takeover kept for the server-to-client direction
\* (s2c_no_context_takeover = FALSE), whatever payloads the server session
\* compresses as successive messages, the client session with the same
\* flags, fed the compressed messages in the same order, decompresses every
\* chunk and its outputs are exactly the payloads sent, in order.
C13_TakeoverRoundTrip ==
  (link.dir = "s2c" /\ ~session["server"].s2c_no_context_takeover) =>
    /\ ~link.failed
    /\ Len(link.received) <= Len(link.sent)
    /\ \A k \in 1..Len(link.received) : link.received[k] = link.sent[k]
    /\ link.receiving =>
         \A i \in 1..Len(link.got) : link.got[i] = Incoming[i].data

\* C13 witness: the client has decompressed two different payloads P1, P2
\* with one decompressor, the second in the context of the first, while its
\* own outbound flag is set
C13_Witness ==
  /\ link.dir = "s2c"
  /\ ~session["server"].s2c_no_context_takeover
  /\ session["client"].c2s_no_context_takeover
  /\ Len(link.received) = 2
  /\ link.received[1] = <<"a">>
  /\ link.received[2] = <<"b">>
  /\ link.recvFresh = <<TRUE, FALSE>>
  /\ session["client"].decompressor.ctx = <<"a", "b">>

\* C14: on a server session with s2c_no_context_takeover = TRUE, any two
\* messages with the same payload have the same compressed output, at
\* whatever positions in the sequence of messages they were compressed.
C14_SamePayloadSameOutput ==
  (link.dir = "s2c" /\ session["server"].s2c_no_context_takeover) =>
    \A i, j \in 1..Len(link.sent) :
      link.sent[i] = link.sent[j] => link.outs[i] = link.outs[j]

\* C14 witness: the server compressed the same payload as its first and its
\* third message, another payload in between, with the inbound flag unset
C14_Witness ==
  /\ link.dir = "s2c"
  /\ session["server"].s2c_no_context_takeover
  /\ ~session["server"].c2s_no_context_takeover
  /\ Len(link.sent) = 3
  /\ link.sent[1] = link.sent[3]
  /\ link.sent[2] # link.sent[1]
  /\ link.outs[1] = link.outs[3]
  /\ link.sentFresh = <<TRUE, TRUE, TRUE>>

\* C19: for a server and a client session built with the same flag pair, in
\* either direction and for each of the four flag combinations, the
\* receiver makes a new decompressor at the start of the k-th message
\* exactly when the sender made a new compressor at the start of the k-th
\* message.
C19_ResetSchedulesAligned ==
  link.dir \in Directions =>
    /\ session["server"].s2c_no_context_takeover
         = session["client"].s2c_no_context_takeover
    /\ session["server"].c2s_no_context_takeover
         = session["client"].c2s_no_context_takeover
    /\ Len(link.recvFresh) <= Len(link.sentFresh)
    /\ \A k \in 1..Len(link.recvFresh) : link.recvFresh[k] = link.sentFresh[k]

\* C19 witness: client to server, c2s_no_context_takeover set and
\* s2c_no_context_takeover unset: the server made a new decompressor for
\* the second message as the client had made a new compressor for it
C19_Witness ==
  /\ link.dir = "c2s"
  /\ session["client"].c2s_no_context_takeover
  /\ ~session["client"].s2c_no_context_takeover
  /\ Len(link.recvFresh) = 2
  /\ link.recvFresh[2]
  /\ link.sentFresh[2]


====
